---- MODULE Spec2Model ----
(***************************************************************************)
(* Model of pytest-fileregress (src/src/pytest_fileregress/plugin.py).     *)
(*                                                                         *)
(* Path strings are sequences of one-character strings, so that            *)
(* os.path.join, os.path.split, os.path.relpath, fnmatch and glob.glob     *)
(* are modelled by what they do to the characters.  The file system is a   *)
(* finite map from absolute nodes (sequences of names) to directories and  *)
(* files; a file has byte content and a permission mode.  There are no     *)
(* symbolic links, and the lists glob returns are modelled as sets: the    *)
(* code only tests membership in them and iterates over them.              *)
(***************************************************************************)
EXTENDS Integers, Sequences, FiniteSets, TLC

VARIABLES
    osname,   \* "posix" or "nt": which os.path flavour the process runs on
    fs,       \* the file system below the two roots: node -> entry
    call      \* the call in progress or just finished, with its locals

vars == <<osname, fs, call>>

----------------------------------------------------------------------------
(* Bounds of the model *)

\* at most this many files and sub-directories exist below one root
MaxNodes == 3
\* sub-directories nest at most this deep below a root
MaxDepth == 2
\* f.read(4096) of get_file_hash, scaled down to this many bytes per read
ReadSize == 2
\* the longest byte content enumerated for get_file_hash
MaxLen == 4
\* the mappings a caller holds at once before letting go of them
MaxCalls == 2

----------------------------------------------------------------------------
(* Names and strings *)

A_T   == <<"a", ".", "t">>      \* an ordinary file name
X_L   == <<"x", ".", "l">>      \* a log file name
DOT_H == <<".", "h">>           \* a file name starting with a dot
S     == <<"s">>                \* a directory name
W     == <<"w">>                \* the working directory /w
B     == <<"b">>                \* the base root /w/b
P     == <<"p">>                \* the parent of the test root
T     == <<"t">>                \* the test root /w/p/t

FileNames == {A_T, X_L, DOT_H}
DirNames  == {S}

CWD       == <<W>>
BaseRoot  == <<W, B>>
TestRoot  == <<W, P, T>>
Roots     == {BaseRoot, TestRoot}
\* directories that always exist: /, /w and /w/p
FixedDirs == {<<>>, <<W>>, <<W, P>>}

\* the two byte contents files are written with
Data1 == <<0, 1>>
Data2 == <<0, 1, 1>>
Contents == {Data1, Data2}

Max0(Set) == IF Set = {} THEN 0 ELSE CHOOSE x \in Set : \A y \in Set : y <= x
Min2(a, b) == IF a < b THEN a ELSE b

----------------------------------------------------------------------------
(* os.path *)

Sep == IF osname = "nt" THEN "\\" ELSE "/"

IsSepChar(c) == c = "/" \/ (osname = "nt" /\ c = "\\")

\* the index of the last separator of p, 0 when it has none
LastSep(p) == Max0({i \in 1..Len(p) : IsSepChar(p[i])})

RECURSIVE RStripSep(_)
RStripSep(s) ==
    IF s # <<>> /\ IsSepChar(s[Len(s)]) THEN RStripSep(SubSeq(s, 1, Len(s) - 1)) ELSE s

\* os.path.join(a, b)
PathJoin(a, b) ==
    IF b # <<>> /\ IsSepChar(b[1]) THEN b
    ELSE IF a = <<>> \/ IsSepChar(a[Len(a)]) THEN a \o b
    ELSE a \o <<Sep>> \o b

\* the head of os.path.split: trailing separators go unless it is all separators
SplitHead(head) == IF RStripSep(head) = <<>> THEN head ELSE RStripSep(head)

SplitAt(p, i) == <<SplitHead(SubSeq(p, 1, i)), SubSeq(p, i + 1, Len(p))>>

\* os.path.split(p): <<head, tail>>
PathSplit(p) == SplitAt(p, LastSep(p))

\* p.split(sep) over every separator the platform accepts: the components
RECURSIVE Components(_)
ComponentsAt(p, i) ==
    IF i = 0 THEN <<p>>
    ELSE Append(Components(SubSeq(p, 1, i - 1)), SubSeq(p, i + 1, Len(p)))
Components(p) == ComponentsAt(p, LastSep(p))

IsAbs(p) == p # <<>> /\ IsSepChar(p[1])

\* os.path.normpath over components: drops "" and ".", resolves ".."
RECURSIVE NormComps(_, _)
NormComps(comps, acc) ==
    IF comps = <<>> THEN acc
    ELSE IF Head(comps) = <<>> \/ Head(comps) = <<".">>
         THEN NormComps(Tail(comps), acc)
    ELSE IF Head(comps) = <<".", ".">>
         THEN NormComps(Tail(comps),
                        IF acc = <<>> THEN acc ELSE SubSeq(acc, 1, Len(acc) - 1))
    ELSE NormComps(Tail(comps), Append(acc, Head(comps)))

\* the components of os.path.abspath(p)
AbsComps(p) == NormComps(Components(p), IF IsAbs(p) THEN <<>> ELSE CWD)

RECURSIVE JoinComps(_)
JoinComps(comps) ==
    IF comps = <<>> THEN <<>>
    ELSE IF Len(comps) = 1 THEN comps[1]
    ELSE comps[1] \o <<Sep>> \o JoinComps(Tail(comps))

RECURSIVE CommonLen(_, _)
CommonLen(a, b) ==
    IF a = <<>> \/ b = <<>> \/ Head(a) # Head(b) THEN 0
    ELSE 1 + CommonLen(Tail(a), Tail(b))

\* rel_list = [pardir] * (len(start_list) - i) + path_list[i:]
RelList(start_list, path_list, i) ==
    [k \in 1..(Len(start_list) - i) |-> <<".", ".">>]
        \o SubSeq(path_list, i + 1, Len(path_list))

RelJoin(rel_list) == IF rel_list = <<>> THEN <<".">> ELSE JoinComps(rel_list)

RelFrom(start_list, path_list) ==
    RelJoin(RelList(start_list, path_list, CommonLen(start_list, path_list)))

\* os.path.relpath(path, start)
RelPath(path, start) == RelFrom(AbsComps(start), AbsComps(path))

----------------------------------------------------------------------------
(* The file system *)

NoNode == <<<<"?">>>>

Kind(node) ==
    IF node \in FixedDirs THEN "dir"
    ELSE IF node \in DOMAIN fs THEN fs[node].kind
    ELSE "none"

\* the OS's path resolution: every component is looked up in a directory
RECURSIVE Walk(_, _)
Walk(comps, node) ==
    IF comps = <<>> THEN node
    ELSE IF Kind(node) # "dir" THEN NoNode
    ELSE IF Head(comps) = <<>> \/ Head(comps) = <<".">>
         THEN Walk(Tail(comps), node)
    ELSE IF Head(comps) = <<".", ".">>
         THEN Walk(Tail(comps),
                   IF node = <<>> THEN node ELSE SubSeq(node, 1, Len(node) - 1))
    ELSE Walk(Tail(comps), Append(node, Head(comps)))

Existing(node) == IF Kind(node) = "none" THEN NoNode ELSE node

Resolve(p) ==
    IF p = <<>> THEN NoNode
    ELSE Existing(Walk(Components(p), IF IsAbs(p) THEN <<>> ELSE CWD))

\* os.path.isfile, os.path.isdir, os.path.lexists
IsFile(p)  == Kind(Resolve(p)) = "file"
IsDir(p)   == Kind(Resolve(p)) = "dir"
LExists(p) == Resolve(p) # NoNode

Children(node) ==
    {n \in DOMAIN fs \cup FixedDirs :
        Len(n) = Len(node) + 1 /\ SubSeq(n, 1, Len(node)) = node}

----------------------------------------------------------------------------
(* fnmatch and glob, as glob.glob(pathname, recursive=True) computes them *)

has_magic(s) == \E i \in 1..Len(s) : s[i] \in {"*", "?", "["}

isrecursive(pattern) == pattern = <<"*", "*">>

ishidden(name) == name # <<>> /\ name[1] = "."

\* fnmatch.fnmatch(name, pat) for patterns of literals, "*" and "?"
RECURSIVE fnmatch(_, _)
fnmatch(name, pat) ==
    IF pat = <<>> THEN name = <<>>
    ELSE IF pat[1] = "*"
         THEN fnmatch(name, Tail(pat)) \/ (name # <<>> /\ fnmatch(Tail(name), pat))
    ELSE IF pat[1] = "?"
         THEN name # <<>> /\ fnmatch(Tail(name), Tail(pat))
    ELSE name # <<>> /\ name[1] = pat[1] /\ fnmatch(Tail(name), Tail(pat))

\* glob._join
glob_join(dirname, basename) ==
    IF dirname = <<>> \/ basename = <<>>
    THEN (IF dirname = <<>> THEN basename ELSE dirname)
    ELSE PathJoin(dirname, basename)

\* the names os.scandir yields in a node, none when it is no directory
NamesIn(node, dironly) ==
    IF Kind(node) # "dir" THEN {}
    ELSE {n[Len(n)] : n \in {c \in Children(node) : ~dironly \/ Kind(c) = "dir"}}

\* glob._listdir
listdir(dirname, dironly) ==
    NamesIn(Resolve(IF dirname = <<>> THEN <<".">> ELSE dirname), dironly)

glob1(dirname, pattern, dironly) ==
    {x \in listdir(dirname, dironly) :
        (ishidden(pattern) \/ ~ishidden(x)) /\ fnmatch(x, pattern)}

glob0(dirname, basename, dironly) ==
    IF basename # <<>>
    THEN (IF LExists(PathJoin(dirname, basename)) THEN {basename} ELSE {})
    ELSE (IF IsDir(dirname) THEN {basename} ELSE {})

RECURSIVE rlistdir(_, _)
rlistdir(dirname, dironly) ==
    UNION {{x} \cup {glob_join(x, y) :
                        y \in rlistdir(IF dirname = <<>> THEN x ELSE glob_join(dirname, x),
                                       dironly)} :
           x \in {n \in listdir(dirname, dironly) : ~ishidden(n)}}

glob2(dirname, pattern, dironly) == {<<>>} \cup rlistdir(dirname, dironly)

glob_in_dir(dirname, basename, dironly) ==
    IF has_magic(basename)
    THEN (IF isrecursive(basename) THEN glob2(dirname, basename, dironly)
                                   ELSE glob1(dirname, basename, dironly))
    ELSE glob0(dirname, basename, dironly)

RECURSIVE iglob(_, _)
glob_dirs(pathname, dirname) ==
    IF dirname # pathname /\ has_magic(dirname) THEN iglob(dirname, TRUE) ELSE {dirname}

iglob_split(pathname, dirname, basename, dironly) ==
    IF ~has_magic(pathname)
    THEN IF basename # <<>>
         THEN (IF LExists(pathname) THEN {pathname} ELSE {})
         ELSE (IF IsDir(dirname) THEN {pathname} ELSE {})
    ELSE IF dirname = <<>>
    THEN (IF isrecursive(basename) THEN glob2(<<>>, basename, dironly)
                                   ELSE glob1(<<>>, basename, dironly))
    ELSE UNION {{PathJoin(d, name) : name \in glob_in_dir(d, basename, dironly)} :
                   d \in glob_dirs(pathname, dirname)}

iglob(pathname, dironly) ==
    iglob_split(pathname, PathSplit(pathname)[1], PathSplit(pathname)[2], dironly)

\* glob.glob(pathname, recursive=True), as the set of the paths it lists
glob(pathname) ==
    IF pathname = <<>> \/ isrecursive(SubSeq(pathname, 1, Min2(2, Len(pathname))))
    THEN iglob(pathname, FALSE) \ {<<>>}
    ELSE iglob(pathname, FALSE)

----------------------------------------------------------------------------
(* get_file_hash *)

\* hash_md5.update(chunk): the digest state absorbs the bytes in order
RECURSIVE md5_update(_, _)
md5_update(h, chunk) ==
    IF chunk = <<>> THEN h
    ELSE md5_update(3 * h + Head(chunk) + 1, Tail(chunk))

\* f.read(n) at offset pos
FileRead(data, pos, n) == SubSeq(data, pos + 1, Min2(pos + n, Len(data)))

\* a loop that takes a short read for the end of the file
RECURSIVE ReadLoop_short(_, _, _, _)
ReadLoop_short(data, pos, h, n) ==
    IF Len(FileRead(data, pos, n)) < n THEN h
    ELSE ReadLoop_short(data, pos + n, md5_update(h, FileRead(data, pos, n)), n)

\* for chunk in iter(lambda: f.read(n), b""): hash_md5.update(chunk)
RECURSIVE ReadLoop(_, _, _, _)
ReadLoop(data, pos, h, n) ==
    IF FileRead(data, pos, n) = <<>> THEN h
    ELSE ReadLoop(data, pos + Len(FileRead(data, pos, n)),
                  md5_update(h, FileRead(data, pos, n)), n)

\* open(filepath, "rb") succeeds on a readable regular file
CanOpen(filepath) == IsFile(filepath) /\ fs[Resolve(filepath)].mode = "r"

IOError(filepath) == [ok |-> FALSE, err |-> "IOError", path |-> filepath]

get_file_hash(filepath) ==
    IF ~CanOpen(filepath) THEN IOError(filepath)
    ELSE [ok |-> TRUE, val |-> ReadLoop(fs[Resolve(filepath)].data, 0, 0, ReadSize)]

----------------------------------------------------------------------------
(* inventory_files *)

\* all_files = glob.glob(os.path.join(folder, "**"), recursive=True)
AllFiles(folder) == glob(PathJoin(folder, <<"*", "*">>))

\* files = [f for f in all_files if os.path.isfile(f)]
RegularFiles(all_files) == {f \in all_files : IsFile(f)}

\* excluded = glob.glob(os.path.join(folder, exclusions), recursive=True)
Excluded(folder, exclusions) ==
    IF exclusions # <<>> THEN glob(PathJoin(folder, exclusions)) ELSE {}

\* files = [f for f in files if f not in excluded]
ApplyExclusions(files, excluded) == {f \in files : f \notin excluded}

SurvivingFiles(folder, exclusions) ==
    ApplyExclusions(RegularFiles(AllFiles(folder)), Excluded(folder, exclusions))

\* rel_path = os.path.relpath(filepath, folder)
\* a key that keeps the path as the listing gave it
KeyOf_raw(filepath, folder) == filepath

KeyOf(filepath, folder) == RelPath(filepath, folder)

\* the loop over files: result[rel_path] = file_hash
BuildResult(files, folder) ==
    [k \in {KeyOf(f, folder) : f \in files} |->
        get_file_hash(CHOOSE f \in files : KeyOf(f, folder) = k).val]

Unreadable(files) == {f \in files : ~CanOpen(f)}

InventoryOutcomes(files, folder) ==
    IF Unreadable(files) = {} THEN {[ok |-> TRUE, val |-> BuildResult(files, folder)]}
    ELSE {IOError(f) : f \in Unreadable(files)}

\* every way the call can end: the mapping, or the IOError of a file that
\* cannot be read (which one is met first depends on the listing order)
inventory_files(folder, exclusions) ==
    InventoryOutcomes(SurvivingFiles(folder, exclusions), folder)

----------------------------------------------------------------------------
(* compare_files *)

CompareHashes(base_hash, test_hash) ==
    IF ~base_hash.ok THEN base_hash
    ELSE IF ~test_hash.ok THEN test_hash
    ELSE [ok |-> TRUE, val |-> base_hash.val = test_hash.val]

\* a comparison that reads the base file twice
compare_files_base(base_path, test_path) ==
    CompareHashes(get_file_hash(base_path), get_file_hash(base_path))

compare_files(base_path, test_path) ==
    CompareHashes(get_file_hash(base_path), get_file_hash(test_path))

----------------------------------------------------------------------------
(* main *)

\* all_files = set(base_files) | set(test_files)
AllPaths(base_files, test_files) == DOMAIN base_files \cup DOMAIN test_files

\* missing_in_base = [f for f in all_files if f not in base_files]
MissingInBase(all_files, base_files) == {f \in all_files : f \notin DOMAIN base_files}

\* missing_in_test = [f for f in all_files if f not in test_files]
MissingInTest(all_files, test_files) == {f \in all_files : f \notin DOMAIN test_files}

\* common_files = set(base_files) & set(test_files)
CommonFiles(base_files, test_files) == DOMAIN base_files \cap DOMAIN test_files

\* a changed list that also takes the paths one side lacks
DifferentFiles_any(base_files, test_files) ==
    {f \in AllPaths(base_files, test_files) :
        f \notin CommonFiles(base_files, test_files) \/ base_files[f] # test_files[f]}

\* the loop appending to different_files
DifferentFiles(base_files, test_files) ==
    {f \in CommonFiles(base_files, test_files) : base_files[f] # test_files[f]}

\* a count that leaves the changed files out
TotalIssues_missing(missing_in_base, missing_in_test, different_files) ==
    Cardinality(missing_in_base) + Cardinality(missing_in_test)

\* total_issues = len(missing_in_base) + len(missing_in_test) + len(different_files)
TotalIssues(missing_in_base, missing_in_test, different_files) ==
    Cardinality(missing_in_base) + Cardinality(missing_in_test)
        + Cardinality(different_files)

\* return 0 if total_issues == 0 else 1
ExitStatus(total_issues) == IF total_issues = 0 THEN 0 ELSE 1

MainSummary(base_files, test_files, all_files, mib, mit, df) ==
    [ok |-> TRUE, base_files |-> base_files, test_files |-> test_files,
     all_files |-> all_files, missing_in_base |-> mib, missing_in_test |-> mit,
     different_files |-> df, total_issues |-> TotalIssues(mib, mit, df),
     ret |-> ExitStatus(TotalIssues(mib, mit, df))]

MainLists(base_files, test_files, all_files) ==
    MainSummary(base_files, test_files, all_files,
                MissingInBase(all_files, base_files),
                MissingInTest(all_files, test_files),
                DifferentFiles(base_files, test_files))

MainReport(base_files, test_files) ==
    MainLists(base_files, test_files, AllPaths(base_files, test_files))

\* the base inventory is built first, then the test inventory
MainOutcomes(bs, ts) ==
    {b \in bs : ~b.ok}
      \cup {t \in ts : ~t.ok /\ \E b \in bs : b.ok}
      \cup UNION {{MainReport(b.val, t.val) : t \in {x \in ts : x.ok}} :
                     b \in {x \in bs : x.ok}}

\* every way main() can end: a report with its exit status, or the IOError
\* of the inventory that failed
main(base_folder, test_folder, exclude) ==
    MainOutcomes(inventory_files(base_folder, exclude),
                 inventory_files(test_folder, exclude))

----------------------------------------------------------------------------
(* The pytest plugin *)

Tests == {"test_file_exists_in_both", "test_files_are_identical"}

\* the parameter of the one skipped case pytest leaves for an empty list
NotSet == <<"NOTSET">>

\* metafunc.parametrize("file_path", all_files)
Parametrize(all_files) == IF all_files = {} THEN {NotSet} ELSE all_files

Items(all_files) ==
    {[test |-> t, file_path |-> p] : t \in Tests, p \in Parametrize(all_files)}

GenOutcomes(bs, ts) ==
    {b \in bs : ~b.ok}
      \cup {t \in ts : ~t.ok /\ \E b \in bs : b.ok}
      \cup {[ok |-> TRUE, val |-> AllPaths(b.val, t.val)] :
               b \in {x \in bs : x.ok}, t \in {x \in ts : x.ok}}

\* every way collection can end: the paths to parametrize with, or the
\* IOError of the inventory that failed
pytest_generate_tests(base_folder, test_folder, exclude) ==
    GenOutcomes(inventory_files(base_folder, exclude),
                inventory_files(test_folder, exclude))

test_file_exists_in_both(base_folder, test_folder, base_files, test_files, file_path) ==
    IF file_path \notin DOMAIN base_files THEN "failed"
    ELSE IF file_path \notin DOMAIN test_files THEN "failed"
    ELSE "passed"

\* assert compare_files(...): an exception in the test body fails the case
AssertOutcome(r) == IF r.ok /\ r.val THEN "passed" ELSE "failed"

\* a test that passes where it has nothing to compare
test_files_are_identical_lenient(base_folder, test_folder, base_files, test_files, file_path) ==
    IF file_path \notin DOMAIN base_files \/ file_path \notin DOMAIN test_files
    THEN "passed"
    ELSE AssertOutcome(compare_files(PathJoin(base_folder, file_path),
                                     PathJoin(test_folder, file_path)))

test_files_are_identical(base_folder, test_folder, base_files, test_files, file_path) ==
    IF file_path \notin DOMAIN base_files \/ file_path \notin DOMAIN test_files
    THEN "skipped"
    ELSE AssertOutcome(compare_files(PathJoin(base_folder, file_path),
                                     PathJoin(test_folder, file_path)))

TestOutcome(test, base_folder, test_folder, base_files, test_files, file_path) ==
    IF test = "test_file_exists_in_both"
    THEN test_file_exists_in_both(base_folder, test_folder, base_files, test_files, file_path)
    ELSE test_files_are_identical(base_folder, test_folder, base_files, test_files, file_path)

\* the fixtures base_files and test_files are built anew for every case; a
\* fixture that raises leaves the case in error
FixtureOutcomes(test, file_path, base_folder, test_folder, bs, ts) ==
    {"error" : o \in {x \in bs \cup ts : ~x.ok}}
      \cup {TestOutcome(test, base_folder, test_folder, b.val, t.val, file_path) :
               b \in {x \in bs : x.ok}, t \in {x \in ts : x.ok}}

CaseOutcomes(test, file_path, base_folder, test_folder, exclude) ==
    IF file_path = NotSet THEN {"skipped"}
    ELSE FixtureOutcomes(test, file_path, base_folder, test_folder,
                         inventory_files(base_folder, exclude),
                         inventory_files(test_folder, exclude))

----------------------------------------------------------------------------
(* inventory_files, one file at a time *)

EmptyMap == [k \in {} |-> 0]
Pending  == [ok |-> FALSE, err |-> "pending"]

\* the state of a build after its listing: nothing hashed yet
Enumerated(folder, exclusions, files) ==
    [op |-> "inventory_build", folder |-> folder, exclusions |-> exclusions,
     pc |-> "hash", files |-> files, todo |-> files, result |-> EmptyMap,
     out |-> Pending]

\* a loop body that passes over a file it cannot read
AfterRead_skip(c, f) ==
    IF ~get_file_hash(f).ok
    THEN [c EXCEPT !.todo = @ \ {f}]
    ELSE [c EXCEPT !.todo = @ \ {f},
                   !.result = (KeyOf(f, c.folder) :> get_file_hash(f).val) @@ @]

\* one turn of the loop over files: rel_path, file_hash, result[rel_path]
AfterRead(c, f) ==
    IF ~get_file_hash(f).ok
    THEN [c EXCEPT !.pc = "raised", !.out = get_file_hash(f)]
    ELSE [c EXCEPT !.todo = @ \ {f},
                   !.result = (KeyOf(f, c.folder) :> get_file_hash(f).val) @@ @]

\* return result
AfterLoop(c) == [c EXCEPT !.pc = "done", !.out = [ok |-> TRUE, val |-> c.result]]

----------------------------------------------------------------------------
(* The mappings inventory_files hands out, as objects of the process *)

\* a module-level dict, the same object with what it holds on every call
ResultObject_shared(heap) ==
    IF heap = <<>> THEN [ref |-> 1, start |-> EmptyMap]
    ELSE [ref |-> 1, start |-> heap[1]]

\* result = {}: a new object on every call, empty
ResultObject(heap) == [ref |-> Len(heap) + 1, start |-> EmptyMap]

\* the loop over files writing result[rel_path] = file_hash into the object
FillResult(start, files, folder) == BuildResult(files, folder) @@ start

\* the objects after the call has written into the one at ref
StoreResult(heap, ref, val) ==
    [i \in 1..(IF ref > Len(heap) THEN ref ELSE Len(heap)) |->
        IF i = ref THEN val ELSE heap[i]]

\* the caller's state after the call returned its mapping
AfterCall(c, folder, exclusions, obj, files) ==
    [op |-> "calls",
     heap |-> StoreResult(c.heap, obj.ref, FillResult(obj.start, files, folder)),
     returned |-> Append(c.returned,
                         [folder |-> folder, exclusions |-> exclusions, ref |-> obj.ref])]

NoCalls == [op |-> "calls", heap |-> <<>>, returned |-> <<>>]

----------------------------------------------------------------------------
(* The inputs the callers pass *)

Slash == <<"/">>
Star  == <<"*">>

\* the ways the base root /w/b and the test root /w/p/t are named
BaseArgs == {B, B \o Slash, <<".">> \o Slash \o B, Slash \o W \o Slash \o B}
TestArgs ==
    {P \o Slash \o T, Slash \o W \o Slash \o P \o Slash \o T}
        \cup (IF osname = "nt" THEN {P \o <<"\\">> \o T} ELSE {})

RootOf(folder) == IF folder \in BaseArgs THEN BaseRoot ELSE TestRoot

\* the exclusion patterns: none, *.l, **/*.l, ./*.l, s, s/*, *
PatLog     == Star \o <<".", "l">>
PatDeepLog == Star \o Star \o Slash \o PatLog
PatDotLog  == <<".">> \o Slash \o PatLog
PatDir     == S
PatInDir   == S \o Slash \o Star
Patterns   == {<<>>, PatLog, PatDeepLog, PatDotLog, PatDir, PatInDir, Star}

\* the relative locations files and directories are created at
RECURSIVE DirChains(_)
DirChains(k) ==
    IF k = 0 THEN {<<>>}
    ELSE DirChains(k - 1) \cup {Append(d, n) : d \in DirChains(k - 1), n \in DirNames}
RelDirs   == DirChains(MaxDepth)
RelFiles  == {Append(d, f) : d \in RelDirs, f \in FileNames}
FlatFiles == {<<A_T>>, <<X_L>>}

\* the byte contents get_file_hash is tried on: every one up to MaxLen
RECURSIVE BytesUpTo(_)
BytesUpTo(k) ==
    IF k = 0 THEN {<<>>}
    ELSE BytesUpTo(k - 1)
           \cup {Append(d, b) : d \in {x \in BytesUpTo(k - 1) : Len(x) = k - 1}, b \in {0, 1}}
AllData == BytesUpTo(MaxLen)

DirEntry == [kind |-> "dir", data |-> <<>>, mode |-> "r"]
FileEntry(data, mode) == [kind |-> "file", data |-> data, mode |-> mode]

Parent(node) == SubSeq(node, 1, Len(node) - 1)
IsUnder(node, r) == Len(node) > Len(r) /\ SubSeq(node, 1, Len(r)) = r
NodesUnder(r) == {n \in DOMAIN fs : IsUnder(n, r)}
Idle == [op |-> "none"]

----------------------------------------------------------------------------
(* What other actors do to the two folders *)

Mkdir(node) ==
    /\ Kind(node) = "none"
    /\ Kind(Parent(node)) = "dir"
    /\ fs' = (node :> DirEntry) @@ fs
    /\ UNCHANGED <<osname, call>>

CreateFile(node, data) ==
    /\ Kind(node) = "none"
    /\ Kind(Parent(node)) = "dir"
    /\ fs' = (node :> FileEntry(data, "r")) @@ fs
    /\ UNCHANGED <<osname, call>>

WriteFile(node, data) ==
    /\ Kind(node) = "file"
    /\ fs[node].data # data
    /\ fs' = [fs EXCEPT ![node].data = data]
    /\ UNCHANGED <<osname, call>>

Chmod(node) ==
    /\ Kind(node) = "file"
    /\ fs' = [fs EXCEPT ![node].mode = IF @ = "r" THEN "none" ELSE "r"]
    /\ UNCHANGED <<osname, call>>

Remove(node) ==
    /\ Children(node) = {}
    /\ fs' = [n \in DOMAIN fs \ {node} |-> fs[n]]
    /\ UNCHANGED <<osname, call>>

\* room for one more node below root r
HasRoom(r) == Cardinality(NodesUnder(r)) < MaxNodes

----------------------------------------------------------------------------
(* The calls, each made in one step *)

InventoryCall(folder, exclusions) ==
    /\ call = Idle
    /\ \E out \in inventory_files(folder, exclusions) :
          call' = [op |-> "inventory_files", folder |-> folder,
                   exclusions |-> exclusions, out |-> out]
    /\ UNCHANGED <<osname, fs>>

HashCall(filepath) ==
    /\ call = Idle
    /\ call' = [op |-> "get_file_hash", filepath |-> filepath,
                out |-> get_file_hash(filepath)]
    /\ UNCHANGED <<osname, fs>>

CompareCall(base_path, test_path) ==
    /\ call = Idle
    /\ call' = [op |-> "compare_files", base_path |-> base_path,
                test_path |-> test_path, out |-> compare_files(base_path, test_path)]
    /\ UNCHANGED <<osname, fs>>

MainCall(base_folder, test_folder, exclude) ==
    /\ call = Idle
    /\ \E out \in main(base_folder, test_folder, exclude) :
          call' = [op |-> "main", base_folder |-> base_folder,
                   test_folder |-> test_folder, exclude |-> exclude, out |-> out]
    /\ UNCHANGED <<osname, fs>>

\* inventory_files step by step: the listing, then one file per step
BuildStart(folder, exclusions) ==
    /\ call = Idle
    /\ call' = Enumerated(folder, exclusions, SurvivingFiles(folder, exclusions))
    /\ UNCHANGED <<osname, fs>>

Building == call.op = "inventory_build" /\ call.pc = "hash"
Todo == IF Building THEN call.todo ELSE {}

BuildRead(f) ==
    /\ Building
    /\ f \in call.todo
    /\ call' = AfterRead(call, f)
    /\ UNCHANGED <<osname, fs>>

BuildReturn ==
    /\ Building
    /\ call.todo = {}
    /\ call' = AfterLoop(call)
    /\ UNCHANGED <<osname, fs>>

\* a pytest session: collection, then the cases one by one
PytestCollect(base_folder, test_folder, exclude) ==
    /\ call = Idle
    /\ \E out \in pytest_generate_tests(base_folder, test_folder, exclude) :
          call' = [op |-> "pytest", base_folder |-> base_folder,
                   test_folder |-> test_folder, exclude |-> exclude,
                   collected |-> out,
                   pending |-> IF out.ok THEN Items(out.val) ELSE {},
                   report |-> {}]
    /\ UNCHANGED <<osname, fs>>

PendingItems == IF call.op = "pytest" THEN call.pending ELSE {}

RunCase(item) ==
    /\ call.op = "pytest"
    /\ item \in call.pending
    /\ \E outcome \in CaseOutcomes(item.test, item.file_path, call.base_folder,
                                    call.test_folder, call.exclude) :
          call' = [call EXCEPT
                     !.pending = @ \ {item},
                     !.report = @ \cup {[test |-> item.test,
                                         file_path |-> item.file_path,
                                         outcome |-> outcome]}]
    /\ UNCHANGED <<osname, fs>>

\* inventory_files called again and again by a caller that keeps every
\* mapping it was handed
Calls == IF call = Idle THEN NoCalls ELSE call

RepeatCall(folder, exclusions) ==
    /\ call = Idle \/ call.op = "calls"
    /\ Len(Calls.returned) < MaxCalls
    /\ Unreadable(SurvivingFiles(folder, exclusions)) = {}
    /\ call' = AfterCall(Calls, folder, exclusions, ResultObject(Calls.heap),
                         SurvivingFiles(folder, exclusions))
    /\ UNCHANGED <<osname, fs>>

\* the caller is done with the outcome
Forget ==
    /\ call # Idle
    /\ call' = Idle
    /\ UNCHANGED <<osname, fs>>

----------------------------------------------------------------------------
(* Spec: one folder of any shape, inventoried under every name and pattern *)

Init ==
    /\ osname = "posix"
    /\ fs = [r \in Roots |-> DirEntry]
    /\ call = Idle

Next ==
    \/ \E d \in RelDirs :
          call = Idle /\ (d = <<>> \/ HasRoom(BaseRoot)) /\ Mkdir(BaseRoot \o d)
    \/ \E rel \in RelFiles, data \in Contents :
          call = Idle /\ HasRoom(BaseRoot) /\ CreateFile(BaseRoot \o rel, data)
    \/ \E node \in DOMAIN fs : call = Idle /\ WriteFile(node, Data2)
    \/ \E node \in DOMAIN fs \ {TestRoot} : call = Idle /\ Remove(node)
    \/ \E folder \in BaseArgs, exclusions \in Patterns : InventoryCall(folder, exclusions)
    \/ Forget

Spec == Init /\ [][Next]_vars

----------------------------------------------------------------------------
(* SpecDiff: two flat folders compared by main() and compare_files() *)

BasePaths == {PathJoin(B, A_T), PathJoin(B, X_L), B}
TestPaths == {PathJoin(PathJoin(P, T), A_T), PathJoin(PathJoin(P, T), X_L)}

NextDiff ==
    \/ \E r \in Roots, rel \in FlatFiles, data \in Contents :
          call = Idle /\ CreateFile(r \o rel, data)
    \/ \E node \in DOMAIN fs, data \in Contents : call = Idle /\ WriteFile(node, data)
    \/ \E node \in DOMAIN fs : call = Idle /\ Chmod(node)
    \/ \E node \in DOMAIN fs \ Roots : call = Idle /\ Remove(node)
    \/ \E exclude \in {<<>>, PatLog} : MainCall(B, PathJoin(P, T), exclude)
    \/ \E base_path \in BasePaths, test_path \in TestPaths : CompareCall(base_path, test_path)
    \/ Forget

SpecDiff == Init /\ [][NextDiff]_vars

----------------------------------------------------------------------------
(* SpecPaths: two folders of nested directories, named in every way, on    *)
(* either platform                                                          *)

InitPaths ==
    /\ osname \in {"posix", "nt"}
    /\ fs = [r \in Roots |-> DirEntry]
    /\ call = Idle

NextPaths ==
    \/ \E r \in Roots, d \in RelDirs \ {<<>>} :
          call = Idle /\ HasRoom(r) /\ Mkdir(r \o d)
    \/ \E r \in Roots, d \in RelDirs :
          call = Idle /\ HasRoom(r) /\ CreateFile(r \o Append(d, A_T), Data1)
    \/ \E node \in DOMAIN fs \ Roots : call = Idle /\ Remove(node)
    \/ \E base_folder \in BaseArgs, test_folder \in TestArgs :
          MainCall(base_folder, test_folder, <<>>)
    \/ Forget

SpecPaths == InitPaths /\ [][NextPaths]_vars

----------------------------------------------------------------------------
(* SpecHash: one file in each folder, of every content up to MaxLen *)

NextHash ==
    \/ \E r \in Roots, data \in AllData : call = Idle /\ CreateFile(r \o <<A_T>>, data)
    \/ \E node \in DOMAIN fs, data \in AllData : call = Idle /\ WriteFile(node, data)
    \/ \E filepath \in {PathJoin(B, A_T), PathJoin(PathJoin(P, T), A_T)} : HashCall(filepath)
    \/ Forget

SpecHash == Init /\ [][NextHash]_vars

----------------------------------------------------------------------------
(* SpecRace: one flat folder changed by other actors while it is inventoried *)

NextRace ==
    \/ \E rel \in FlatFiles, data \in Contents : CreateFile(BaseRoot \o rel, data)
    \/ \E node \in DOMAIN fs, data \in Contents : WriteFile(node, data)
    \/ \E node \in DOMAIN fs : Chmod(node)
    \/ \E node \in DOMAIN fs \ Roots : Remove(node)
    \/ \E exclusions \in {<<>>, PatLog} : BuildStart(B, exclusions)
    \/ \E f \in Todo : BuildRead(f)
    \/ BuildReturn
    \/ ~Building /\ Forget

SpecRace == Init /\ [][NextRace]_vars

----------------------------------------------------------------------------
(* SpecHarness: a pytest session over two flat folders that stay as they   *)
(* are while it runs                                                        *)

NextHarness ==
    \/ \E r \in Roots, rel \in FlatFiles, data \in Contents :
          call = Idle /\ CreateFile(r \o rel, data)
    \/ \E node \in DOMAIN fs, data \in Contents : call = Idle /\ WriteFile(node, data)
    \/ \E node \in DOMAIN fs : call = Idle /\ Chmod(node)
    \/ \E node \in DOMAIN fs \ Roots : call = Idle /\ Remove(node)
    \/ \E exclude \in {<<>>, PatLog} : PytestCollect(B, PathJoin(P, T), exclude)
    \/ \E item \in PendingItems : RunCase(item)
    \/ PendingItems = {} /\ Forget

SpecHarness == Init /\ [][NextHarness]_vars

----------------------------------------------------------------------------
(* SpecCalls: one flat folder inventoried again and again while it changes *)

NextCalls ==
    \/ \E rel \in FlatFiles, data \in Contents : CreateFile(BaseRoot \o rel, data)
    \/ \E node \in DOMAIN fs, data \in Contents : WriteFile(node, data)
    \/ \E node \in DOMAIN fs \ Roots : Remove(node)
    \/ \E folder \in {B, B \o Slash}, exclusions \in {<<>>, PatLog} :
          RepeatCall(folder, exclusions)
    \/ Forget

SpecCalls == Init /\ [][NextCalls]_vars

----------------------------------------------------------------------------
(* What the file system holds, read off the nodes themselves *)

FilesUnder(r) == {n \in NodesUnder(r) : fs[n].kind = "file"}

\* the locations of the files below a root, as sequences of names
RelLocs(r) == {SubSeq(n, Len(r) + 1, Len(n)) : n \in FilesUnder(r)}

\* the location of a node relative to its root, written with the separator
RelOf(n, r) == JoinComps(SubSeq(n, Len(r) + 1, Len(n)))

FileData(filepath) == fs[Resolve(filepath)].data

IsInventoryCall == call.op = "inventory_files"
Returned == IsInventoryCall /\ call.out.ok
IsMainReport == call.op = "main" /\ call.out.ok

\* the single outcome of a build when every file can be read
InvOf(folder, exclusions) == CHOOSE o \in inventory_files(folder, exclusions) : TRUE

----------------------------------------------------------------------------
(* C1 *)

\* C1: building an inventory for a root that does not exist ends in a
\* RootNotFound error and never returns a mapping.
C1_MissingRootFails ==
    (IsInventoryCall /\ Kind(RootOf(call.folder)) = "none")
        => (~call.out.ok /\ call.out.err = "RootNotFound")

----------------------------------------------------------------------------
(* C2 *)

\* C2: with no exclusion pattern the keys of the returned mapping are exactly
\* the regular files below the root, at any depth and whatever their names
\* (names starting with a dot included), and no directory has an entry.
C2_ExactlyTheRegularFiles ==
    (Returned /\ call.exclusions = <<>>)
        => DOMAIN call.out.val =
              {RelOf(n, RootOf(call.folder)) : n \in FilesUnder(RootOf(call.folder))}

----------------------------------------------------------------------------
(* C3 *)

\* the files a pattern matches below the root, as files (resolved nodes)
MatchSet(folder, exclusions) ==
    {Resolve(f) : f \in {g \in Excluded(folder, exclusions) : IsFile(g)}}

MatchedKeys(folder, exclusions) ==
    {RelOf(n, RootOf(folder)) : n \in MatchSet(folder, exclusions)}

Subtractive(val, plain, gone) ==
    /\ DOMAIN val = DOMAIN plain \ gone
    /\ \A k \in DOMAIN val : val[k] = plain[k]

Idempotent(files, excluded) == ApplyExclusions(files, excluded) = files

\* C3: exclusion is subtractive and idempotent: the keys with a pattern are
\* the keys without it minus the files the pattern matches below the root,
\* surviving keys keep their fingerprints, and excluding again from the
\* filtered files removes nothing more.
C3_ExclusionSubtractive ==
    (Returned /\ call.exclusions # <<>>)
        => /\ Subtractive(call.out.val, InvOf(call.folder, <<>>).val,
                          MatchedKeys(call.folder, call.exclusions))
           /\ Idempotent(SurvivingFiles(call.folder, call.exclusions),
                         Excluded(call.folder, call.exclusions))

----------------------------------------------------------------------------
(* C4 *)

ExtraInTest(bf, tf)    == {p \in DOMAIN tf : p \notin DOMAIN bf}
MissingFromTest(bf, tf) == {p \in DOMAIN bf : p \notin DOMAIN tf}
Unchanged(bf, tf)      == {p \in DOMAIN bf \cap DOMAIN tf : bf[p] = tf[p]}
Changed(bf, tf)        == {p \in DOMAIN bf \cap DOMAIN tf : bf[p] # tf[p]}

\* in how many of the four classes main() put path p
ClassCount(r, p) ==
    Cardinality({c \in 1..4 :
        \/ c = 1 /\ p \in r.missing_in_base
        \/ c = 2 /\ p \in r.missing_in_test
        \/ c = 3 /\ p \in r.different_files
        \/ c = 4 /\ p \in r.all_files
                 /\ p \notin (r.missing_in_base \cup r.missing_in_test
                                \cup r.different_files)
                 /\ p \in Unchanged(r.base_files, r.test_files)})

Classified(r) ==
    /\ r.all_files = DOMAIN r.base_files \cup DOMAIN r.test_files
    /\ r.missing_in_base = ExtraInTest(r.base_files, r.test_files)
    /\ r.missing_in_test = MissingFromTest(r.base_files, r.test_files)
    /\ r.different_files = Changed(r.base_files, r.test_files)
    /\ \A p \in r.all_files : ClassCount(r, p) = 1

\* C4: over the deduplicated union of the two key sets, main() puts every
\* path in exactly one of missing-in-base (extra in test), missing-in-test,
\* changed and unchanged: its three lists are pairwise disjoint and, with
\* the unchanged paths, cover all_files.
C4_ClassificationTotalDisjoint == IsMainReport => Classified(call.out)

C4_Witness ==
    /\ IsMainReport
    /\ call.out.missing_in_base # {}
    /\ call.out.different_files # {}

----------------------------------------------------------------------------
(* C5 *)

IsBuild == call.op = "inventory_build"

\* what the caller gets: a mapping with an entry for every listed file, or
\* an IOError naming a listed file and nothing else
AllOrNothing ==
    IsBuild
        => /\ call.pc = "done"
                => /\ call.out.ok
                   /\ DOMAIN call.out.val = {KeyOf(f, call.folder) : f \in call.files}
           /\ call.pc = "raised"
                => /\ ~call.out.ok
                   /\ call.out.err = "IOError"
                   /\ call.out.path \in call.files
                   /\ DOMAIN call.out = {"ok", "err", "path"}
           /\ call.pc = "hash" => call.out = Pending

\* a failed read ends the build with the path that failed; a file leaves the
\* loop only with its entry written
ReadStep ==
    (IsBuild /\ call.pc = "hash" /\ call' # call /\ fs' = fs)
        => /\ call'.op = "inventory_build"
           /\ call'.pc = "raised"
                => /\ call'.out.path \in call.todo
                   /\ ~CanOpen(call'.out.path)
           /\ call'.pc = "hash"
                => \E f \in call.todo :
                      /\ CanOpen(f)
                      /\ call'.todo = call.todo \ {f}
                      /\ KeyOf(f, call.folder) \in DOMAIN call'.result
                      /\ call'.result[KeyOf(f, call.folder)] = md5_update(0, FileData(f))
           /\ call'.pc = "done" => call.todo = {}

\* C5: an inventory build is all-or-nothing: when the read of any listed
\* file fails (permission denied, or removed by another actor after the
\* listing) the build ends in an IOError naming that path, and the caller
\* never gets a mapping that lacks a listed file.
C5_AllOrNothing == [](AllOrNothing) /\ [][ReadStep]_vars

\* a build that hashed one file and then met one removed since the listing
C5_Witness ==
    /\ IsBuild
    /\ call.pc = "raised"
    /\ DOMAIN call.result # {}
    /\ Kind(Resolve(call.out.path)) = "none"

----------------------------------------------------------------------------
(* C6 *)

CleanKey(k) == ~IsAbs(k) /\ \A i \in 1..Len(k) : IsSepChar(k[i]) => k[i] = Sep

----------------------------------------------------------------------------
(* C7 *)

HashPaths == {PathJoin(B, A_T), PathJoin(PathJoin(P, T), A_T)}

\* C7: the digest depends only on the bytes: reading in chunks of any size
\* gives the digest of the whole content, files with identical bytes get
\* the same digest, and so does a repeated call on unchanged content.
C7_DigestOfContentOnly ==
    (call.op = "get_file_hash" /\ call.out.ok)
        => /\ call.out.val = md5_update(0, FileData(call.filepath))
           /\ \A n \in 1..(MaxLen + 1) :
                 ReadLoop(FileData(call.filepath), 0, 0, n) = call.out.val
           /\ \A q \in HashPaths :
                 (CanOpen(q) /\ FileData(q) = FileData(call.filepath))
                     => get_file_hash(q) = call.out

C7_Witness ==
    /\ call.op = "get_file_hash"
    /\ call.out.ok
    /\ Len(FileData(call.filepath)) = 2 * ReadSize
    /\ \A q \in HashPaths : CanOpen(q) /\ FileData(q) = FileData(call.filepath)

----------------------------------------------------------------------------
(* C8 *)

\* C8: compare_files reads both files from disk and returns True exactly
\* when their contents (digests) are equal, False when they differ, and
\* ends in an IOError naming an unreadable path, with no boolean, when
\* either path cannot be read.
C8_CompareFromDisk ==
    call.op = "compare_files"
        => IF CanOpen(call.base_path) /\ CanOpen(call.test_path)
           THEN /\ call.out.ok
                /\ call.out.val = (FileData(call.base_path) = FileData(call.test_path))
           ELSE /\ ~call.out.ok
                /\ call.out.err = "IOError"
                /\ call.out.path \in {p \in {call.base_path, call.test_path} : ~CanOpen(p)}

C8_Witness ==
    /\ call.op = "compare_files"
    /\ call.out.ok
    /\ ~call.out.val

----------------------------------------------------------------------------
(* C9 *)

Expected(test, p, bf, tf) ==
    IF p = NotSet THEN "skipped"
    ELSE IF p \in Unchanged(bf, tf) THEN "passed"
    ELSE IF p \in Changed(bf, tf)
         THEN (IF test = "test_files_are_identical" THEN "failed" ELSE "passed")
    ELSE (IF test = "test_file_exists_in_both" THEN "failed" ELSE "skipped")

CasesOf(c) == {[test |-> r.test, file_path |-> r.file_path] : r \in c.report} \cup c.pending

SessionAgrees(c, bf, tf) ==
    /\ c.collected.val = DOMAIN bf \cup DOMAIN tf
    /\ {i \in CasesOf(c) : i.file_path # NotSet}
          = {[test |-> t, file_path |-> p] : t \in Tests, p \in DOMAIN bf \cup DOMAIN tf}
    /\ (\E i \in CasesOf(c) : i.file_path = NotSet) => DOMAIN bf \cup DOMAIN tf = {}
    /\ \A r \in c.report : r.outcome = Expected(r.test, r.file_path, bf, tf)
    /\ c.pending = {}
          => \A p \in (DOMAIN bf \cup DOMAIN tf) \ Unchanged(bf, tf) :
                \E r \in c.report : r.file_path = p /\ r.outcome = "failed"

\* C9: in a pytest session over two folders that stay as they are, the
\* cases are one per test function and path of the union of the two
\* inventories; for an unchanged path both tests pass, for a path one side
\* lacks test_file_exists_in_both fails and test_files_are_identical is
\* skipped, for a changed path test_files_are_identical fails; no path
\* outside the union has a case and every path that is not unchanged has a
\* failing case once the session is over.
C9_HarnessVerdicts ==
    (call.op = "pytest" /\ call.collected.ok)
        => SessionAgrees(call, InvOf(call.base_folder, call.exclude).val,
                         InvOf(call.test_folder, call.exclude).val)

\* a finished session with a changed path and a path one side lacks
C9_Witness ==
    /\ call.op = "pytest"
    /\ call.collected.ok
    /\ call.pending = {}
    /\ \E r \in call.report :
          r.test = "test_files_are_identical" /\ r.outcome = "failed"
    /\ \E r \in call.report :
          r.test = "test_files_are_identical" /\ r.outcome = "skipped"
             /\ r.file_path # NotSet
    /\ \E r \in call.report :
          r.test = "test_file_exists_in_both" /\ r.outcome = "failed"

----------------------------------------------------------------------------
(* C10 *)

\* C10: main() returns 0 exactly when the two inventories are equal as
\* mappings and 1 otherwise, and total_issues counts each path of the union
\* that is not unchanged once.
C10_ExitStatus ==
    IsMainReport
        => /\ call.out.ret \in {0, 1}
           /\ (call.out.ret = 0) = (call.out.base_files = call.out.test_files)
           /\ call.out.total_issues =
                 Cardinality((DOMAIN call.out.base_files \cup DOMAIN call.out.test_files)
                                \ Unchanged(call.out.base_files, call.out.test_files))

C10_Witness ==
    /\ IsMainReport
    /\ call.out.ret = 1
    /\ call.out.total_issues = 2
    /\ call.out.different_files # {}

----------------------------------------------------------------------------
(* C11 *)

\* the directories a pattern matches below the root
MatchedDirs(folder, exclusions) ==
    {Resolve(g) : g \in {x \in Excluded(folder, exclusions) : IsDir(x)}}

\* the keys of the files that lie, at any depth, below one of the directories
KeysBeneath(dirs, r) ==
    {RelOf(n, r) : n \in {f \in FilesUnder(r) : \E d \in dirs : IsUnder(f, d)}}

\* C11: when the exclusion pattern matches a directory, every file below
\* that directory, at any depth, is excluded: no key of the returned
\* inventory lies beneath a directory the pattern matches.
C11_MatchedDirectoryExcluded ==
    (Returned /\ call.exclusions # <<>>)
        => DOMAIN call.out.val
              \cap KeysBeneath(MatchedDirs(call.folder, call.exclusions),
                               RootOf(call.folder)) = {}

----------------------------------------------------------------------------
(* C12 *)

\* the files of a flat folder that a one-name pattern leaves in
KeptOnDisk(r, exclusions) ==
    {n \in FilesUnder(r) : exclusions = <<>> \/ ~fnmatch(n[Len(n)], exclusions)}

NodeOfKey(k, r) == CHOOSE n \in FilesUnder(r) : RelOf(n, r) = k

\* the inventory of the folder as it is on disk now
OnDisk(r, exclusions) ==
    [k \in {RelOf(n, r) : n \in KeptOnDisk(r, exclusions)} |->
        md5_update(0, fs[NodeOfKey(k, r)].data)]

\* the mapping the caller got from its i-th call, as it reads now
MappingOf(c, i) == c.heap[c.returned[i].ref]

Held(c) == IF c.op = "calls" THEN 1..Len(c.returned) ELSE {}

\* the call that has just returned gave the inventory of the folder as it is
ReturnsCurrent(c) ==
    MappingOf(c, Len(c.returned))
        = OnDisk(RootOf(c.returned[Len(c.returned)].folder),
                 c.returned[Len(c.returned)].exclusions)

\* the mappings held before the step read the same after it
EarlierKept(c, d) ==
    \A i \in Held(c) : i \in Held(d) /\ MappingOf(d, i) = MappingOf(c, i)

FreshStep ==
    /\ (call'.op = "calls" /\ Len(call'.returned) = Cardinality(Held(call)) + 1)
          => (fs' = fs /\ ReturnsCurrent(call') /\ EarlierKept(call, call'))
    /\ fs' # fs => EarlierKept(call, call')

\* C12: inventory_files keeps nothing between calls: whatever files were
\* created, removed or rewritten and whatever calls were made before, a call
\* returns the inventory of the folder as it is at that call, and the
\* mappings returned by earlier calls read the same after later calls and
\* later changes of the folder.
C12_FreshEveryCall == [][FreshStep]_vars

\* two mappings held, the earlier one with a key the later one lacks and a
\* digest the later one has changed
C12_Witness ==
    /\ call.op = "calls"
    /\ Len(call.returned) = 2
    /\ call.returned[1].exclusions = call.returned[2].exclusions
    /\ \E k \in DOMAIN MappingOf(call, 1) : k \notin DOMAIN MappingOf(call, 2)
    /\ \E k \in DOMAIN MappingOf(call, 1) \cap DOMAIN MappingOf(call, 2) :
          MappingOf(call, 1)[k] # MappingOf(call, 2)[k]

====
